---- MODULE Spec2Model ----
(***************************************************************************)
(* State-machine model of src/app.py: the Streamlit dashboard that loads  *)
(* the weekly Netflix chart table, filters it by category and runs one of *)
(* NetflixAnalyzerV5.analyze_viewer / analyze_producer per script run.   *)
(*                                                                         *)
(* A pandas DataFrame is a sequence of rows (records keyed by column      *)
(* name) plus its set of column names.  A derived table (groupby result)  *)
(* is a function from group key to metric; the display order produced by  *)
(* sort_values is not part of the table, and where the code reads the     *)
(* first row of a sorted table (iloc[0]) every key of maximal metric is a *)
(* possible outcome, since sort_values' default sort is not stable.       *)
(* The week / Week_Str columns are parsed by load_data and read by no     *)
(* aggregation of this file; they are left out of the rows.               *)
(***************************************************************************)
EXTENDS Integers, Sequences, FiniteSets, TLC

VARIABLES
    file,           \* the CSV on disk: what pd.read_csv will find
    pc,             \* "boot" | "ready" | "stopped" (st.stop) | "crashed" (uncaught exception)
    load_status,    \* outcome of load_data: "pending" | "table" | "LoadError" | "exception"
    df_raw,         \* rows of the cached table returned by load_data
    columns,        \* df_raw.columns
    category_mode,  \* sidebar radio
    df_main,        \* df_raw[df_raw['category'] == category_mode].copy()
    self_df,        \* analyzer.df after the run's analyze_* call
    api_key,        \* analyzer.api_key (sidebar text input)
    report          \* what the last script run rendered

vars == <<file, pc, load_status, df_raw, columns, category_mode, df_main,
          self_df, api_key, report>>

\* ------------------------------------------------------------------ bounds
MaxRows == 3

\* ------------------------------------------------------- program constants
TARGET_COUNTRIES ==
    {"Taiwan", "Hong Kong", "Japan", "South Korea", "Thailand", "Vietnam",
     "Philippines", "Singapore", "China", "United States", "Canada",
     "United Kingdom", "France", "Sweden", "Norway"}

Categories == {"Films", "TV"}

AllColumns ==
    {"category", "show_title", "Country", "country_name", "weekly_rank",
     "Genre", "match"}

TopTitles == 10
TopMarkets == 20

\* ------------------------------------------------------------ input domain
\* Values are those of the data model: Country, country_name and show_title
\* are strings, weekly_rank an integer >= 1.
Titles == {"A", "B"}
Countries == {"Japan", "South Korea"}
Ranks == {1, 2}
ApiKeys == {"", "key"}
Transport == {"ok", "error"}

FilmRows ==
    [category : {"Films"}, show_title : Titles, Country : Countries,
     country_name : Countries, weekly_rank : Ranks, Genre : {"Drama"},
     match : {"OK"}]

TVRows ==
    [category : {"TV"}, show_title : {"A"}, Country : {"South Korea"},
     country_name : Countries, weekly_rank : {1}, Genre : {"Drama"},
     match : {"OK"}]

ViewerRows == FilmRows \cup TVRows

GenreRows ==
    [category : {"Films"}, show_title : Titles, Country : {"Japan"},
     country_name : Countries, weekly_rank : {1}, Genre : {"Drama"},
     match : {"OK", "NG"}]
    \cup
    [category : {"Films"}, show_title : Titles, Country : {"Japan"},
     country_name : Countries, weekly_rank : {1}, Genre : {"Comedy"},
     match : {"OK"}]

ColumnSets ==
    {AllColumns, AllColumns \ {"Genre"}, AllColumns \ {"match"}}

SeqsUpTo(S, n) == UNION {[1..k -> S] : k \in 0..n}

\* ----------------------------------------------------- DataFrame primitives
\* df[df[col] == v]
Where(df, col, v) == SelectSeq(df, LAMBDA r : r[col] = v)

\* df[df[col] != v]
WhereNot(df, col, v) == SelectSeq(df, LAMBDA r : r[col] # v)

\* df[col].unique(), as a set
Values(df, col) == {df[i][col] : i \in DOMAIN df}

\* Series.unique(): distinct values in order of first appearance
RECURSIVE UniqueList(_)
UniqueList(s) ==
    IF s = <<>> THEN <<>>
    ELSE LET front == UniqueList(SubSeq(s, 1, Len(s) - 1))
             last == s[Len(s)]
         IN IF \E i \in DOMAIN front : front[i] = last
            THEN front ELSE Append(front, last)

Column(df, col) == [i \in DOMAIN df |-> df[i][col]]

\* df.groupby(key)[val].nunique()
GroupNunique(df, key, val) ==
    [k \in Values(df, key) |-> Cardinality(Values(Where(df, key, k), val))]

\* df.groupby(key)[val].size(): rows per key
GroupSize(df, key) ==
    [k \in Values(df, key) |-> Len(Where(df, key, k))]

\* df[col].value_counts()
ValueCounts(df, col) == GroupSize(df, col)

\* df.groupby(key)[val].unique().apply(", ".join)
GroupUniqueList(df, key, val) ==
    [k \in Values(df, key) |-> UniqueList(Column(Where(df, key, k), val))]

\* df.groupby([k1, k2]).size()
GroupSize2(df, k1, k2) ==
    [k \in {<<df[i][k1], df[i][k2]>> : i \in DOMAIN df} |->
        Len(SelectSeq(df, LAMBDA r : r[k1] = k[1] /\ r[k2] = k[2]))]

\* df.groupby(key)[val].apply(set)
GroupSet(df, key, val) ==
    [k \in Values(df, key) |-> Values(Where(df, key, k), val)]

\* df.drop_duplicates(subset=[col]): the first row of each value is kept
RECURSIVE drop_duplicates(_, _)
drop_duplicates(df, col) ==
    IF df = <<>> THEN <<>>
    ELSE LET front == SubSeq(df, 1, Len(df) - 1)
             last == df[Len(df)]
         IN IF \E i \in DOMAIN front : front[i][col] = last[col]
            THEN drop_duplicates(front, col)
            ELSE Append(drop_duplicates(front, col), last)

\* df[df[col].isin(vals)]
IsIn(df, col, vals) == SelectSeq(df, LAMBDA r : r[col] \in vals)

\* sort_values(metric, ascending=False).head(n) of a derived table: the n keys
\* of largest metric.  A table of at most n keys is kept whole; beyond that
\* the sort decides which of several tied keys survive, and CHOOSE fixes one.
HeadN(tbl, n) ==
    IF Cardinality(DOMAIN tbl) <= n THEN tbl
    ELSE LET keep == CHOOSE S \in SUBSET DOMAIN tbl :
                        /\ Cardinality(S) = n
                        /\ \A a \in S, b \in (DOMAIN tbl) \ S : tbl[a] >= tbl[b]
         IN [k \in keep |-> tbl[k]]

\* sort_values(metric, ascending=False).iloc[0][key], or the fallback when empty
TopKeys(tbl) ==
    IF DOMAIN tbl = {} THEN {"none"}
    ELSE {k \in DOMAIN tbl : \A j \in DOMAIN tbl : tbl[k] >= tbl[j]}

RECURSIVE SumOver(_, _)
SumOver(f, S) ==
    IF S = {} THEN 0
    ELSE LET k == CHOOSE x \in S : TRUE IN f[k] + SumOver(f, S \ {k})

Total(tbl) == SumOver(tbl, DOMAIN tbl)

Project(df, cols) == [i \in DOMAIN df |-> [c \in cols |-> df[i][c]]]

\* ------------------------------------------------------------- load_data
\* pd.read_csv + to_datetime inside try; only FileNotFoundError is handled
\* (st.error, empty DataFrame); any other exception leaves the function.
load_data(f) ==
    CASE f.kind = "missing" ->
            [status |-> "LoadError", rows |-> <<>>, columns |-> {}]
      [] f.kind = "unparsable" ->
            [status |-> "exception", rows |-> <<>>, columns |-> {}]
      [] OTHER ->
            [status |-> "table", rows |-> Project(f.rows, f.columns),
             columns |-> f.columns]

\* df_raw[df_raw['category'] == category_mode].copy()
FilterCategory(df, cat) == Where(df, "category", cat)

\* ------------------------------------------------------------ ask_gemini
\* ask_gemini without its try/except: a transport error leaves the function
ask_gemini_uncaught(key, prompt, outcome) ==
    IF key = "" THEN [raised |-> FALSE, kind |-> "warning", prompt |-> {}]
    ELSE IF outcome = "ok"
         THEN [raised |-> FALSE, kind |-> "generated", prompt |-> prompt]
         ELSE [raised |-> TRUE, kind |-> "error", prompt |-> {}]

ask_gemini(key, prompt, outcome) ==
    IF key = "" THEN [raised |-> FALSE, kind |-> "warning", prompt |-> {}]
    ELSE IF outcome = "ok"
         THEN [raised |-> FALSE, kind |-> "generated", prompt |-> prompt]
         ELSE [raised |-> FALSE, kind |-> "error", prompt |-> {}]

NoDigest == [kind |-> "none"]

\* with st.expander: if self.api_key and st.button(...): st.markdown(ask_gemini(...))
Digest(key, clicked, prompt, outcome) ==
    IF key # "" /\ clicked
    THEN LET r == ask_gemini(key, prompt, outcome)
         IN [kind |-> "requested", prompt |-> prompt, outcome |-> outcome,
             raised |-> r.raised,
             shown |-> IF r.raised THEN [kind |-> "nothing"]
                       ELSE [kind |-> r.kind, prompt |-> r.prompt]]
    ELSE NoDigest

NoTables == [kind |-> "none"]

\* ------------------------------------------------- analyze_viewer (A)
\* groupby('Country').size() in place of nunique(): rows, not distinct titles
unique_counts_size(filtered_df) == GroupSize(filtered_df, "Country")

\* tab1 / tab3: filtered_df.groupby('Country')['show_title'].nunique()
unique_counts(filtered_df) == GroupNunique(filtered_df, "Country", "show_title")

\* tab2: rank-1 dominance
rank1_df(filtered_df) == Where(filtered_df, "weekly_rank", 1)

\* distinct rank-1 titles per Country in place of rank-1 rows per Country
rank1_counts_nunique(r1) == GroupNunique(r1, "Country", "show_title")

\* rank1_df['Country'].value_counts()
rank1_counts(r1) == ValueCounts(r1, "Country")

champion_tab(filtered_df) ==
    LET r1 == rank1_df(filtered_df)
    IN IF r1 = <<>>
       THEN [kind |-> "info_no_champion", rank1_counts |-> <<>>,
             rank1_titles |-> <<>>]
       ELSE [kind |-> "table", rank1_counts |-> rank1_counts(r1),
             rank1_titles |-> GroupUniqueList(r1, "Country", "show_title")]

\* tab4: domestic export
export_tab(domestic_export_df) ==
    IF domestic_export_df = <<>>
    THEN [kind |-> "warning_no_production", export_stats |-> <<>>,
          export_detail |-> <<>>]
    ELSE [kind |-> "table",
          export_stats |-> GroupNunique(domestic_export_df, "country_name", "show_title"),
          export_detail |-> GroupUniqueList(domestic_export_df, "country_name", "show_title")]

viewer_tables(df, T) ==
    LET filtered_df == Where(df, "country_name", T)
        domestic_export_df == Where(df, "Country", T)
    IN [kind |-> "viewer",
        unique_counts |-> unique_counts(filtered_df),
        champion |-> champion_tab(filtered_df),
        unique_counts_map |-> unique_counts(filtered_df),
        export |-> export_tab(domestic_export_df),
        top_titles |-> HeadN(GroupSize2(filtered_df, "show_title", "Country"), TopTitles),
        detail_list |-> GroupUniqueList(filtered_df, "Country", "show_title"),
        raw |-> filtered_df]

\* f"... {target_country} ({category_mode}) ...: {top_source} ..."
viewer_prompt(T, cat, top_source) ==
    {<<"target_country", T>>, <<"category_mode", cat>>, <<"top_source", top_source>>}

\* sort_values(..., ascending=True): the first row is a least frequent source
viewer_bottom_sources(df, T) ==
    LET tbl == unique_counts(Where(df, "country_name", T))
    IN IF DOMAIN tbl = {} THEN {"none"}
       ELSE {k \in DOMAIN tbl : \A j \in DOMAIN tbl : tbl[k] <= tbl[j]}

\* unique_counts.iloc[0]['Country'] if not unique_counts.empty else the fallback
viewer_top_sources(df, T) == TopKeys(unique_counts(Where(df, "country_name", T)))

\* analyze_viewer without the membership check of lines 92-94
analyze_viewer_unchecked(df, T, cat, key, clicked, outcome, top) ==
    [kind |-> "viewer", target |-> T, status |-> "ok",
     tables |-> viewer_tables(df, T),
     digest |-> Digest(key, clicked, viewer_prompt(T, cat, top), outcome)]

analyze_viewer(df, T, cat, key, clicked, outcome, top) ==
    IF T \notin Values(df, "country_name")
    THEN [kind |-> "viewer", target |-> T, status |-> "NotFound",
          tables |-> NoTables, digest |-> NoDigest]
    ELSE [kind |-> "viewer", target |-> T, status |-> "ok",
          tables |-> viewer_tables(df, T),
          digest |-> Digest(key, clicked, viewer_prompt(T, cat, top), outcome)]

\* self.df = self.df[self.df['country_name'] == T]: the filter kept in place
viewer_self_df_in_place(df, T) == Where(df, "country_name", T)

\* self.df once analyze_viewer has returned: the filters take copies
viewer_self_df(df, T) == df

\* ------------------------------------------------- analyze_producer (B)
\* tab3: overseas performance
overseas_tab(filtered_df, T) ==
    LET export_df == WhereNot(filtered_df, "country_name", T)
    IN IF export_df = <<>>
       THEN [kind |-> "info_domestic_only", export_stats |-> <<>>]
       ELSE [kind |-> "table",
             export_stats |-> GroupNunique(export_df, "country_name", "show_title")]

\* tab6: for title, dests in title_destinations.items(): if dests == {T} ... else ...
domestic_titles(title_destinations, T) ==
    {t \in DOMAIN title_destinations : title_destinations[t] = {T}}

\* "charted abroad only": a title charting at home and abroad is in no bucket
international_titles_abroad_only(title_destinations, T) ==
    {t \in DOMAIN title_destinations : T \notin title_destinations[t]}

international_titles(title_destinations, T) ==
    {t \in DOMAIN title_destinations : title_destinations[t] # {T}}

\* drop_duplicates(subset=['show_title'], keep='last')
RECURSIVE drop_duplicates_last(_, _)
drop_duplicates_last(df, col) ==
    IF df = <<>> THEN <<>>
    ELSE LET rest == SubSeq(df, 2, Len(df))
         IN IF \E i \in DOMAIN rest : rest[i][col] = df[1][col]
            THEN drop_duplicates_last(rest, col)
            ELSE <<df[1]>> \o drop_duplicates_last(rest, col)

unique_works_df_keep_last(filtered_df) == drop_duplicates_last(filtered_df, "show_title")

\* unique_works_df = filtered_df.drop_duplicates(subset=['show_title'])
unique_works_df(filtered_df) == drop_duplicates(filtered_df, "show_title")

\* df_ok / df_not_ok of render_genre_section
df_ok(sub_df) == Where(sub_df, "match", "OK")

df_not_ok(sub_df) == WhereNot(sub_df, "match", "OK")

render_genre_section(sub_df) ==
    IF sub_df = <<>>
    THEN [kind |-> "info_no_data", count |-> 0, rows |-> <<>>, df_ok |-> <<>>,
          genre_counts |-> <<>>, df_not_ok |-> <<>>, not_ok_list |-> <<>>]
    ELSE [kind |-> "section", count |-> Len(sub_df), rows |-> sub_df,
          df_ok |-> df_ok(sub_df),
          genre_counts |-> ValueCounts(df_ok(sub_df), "Genre"),
          df_not_ok |-> df_not_ok(sub_df),
          not_ok_list |-> Project(df_not_ok(sub_df), {"show_title", "Genre", "match"})]

genre_tab(filtered_df, cols, T) ==
    IF "Genre" \notin cols \/ "match" \notin cols
    THEN [kind |-> "SchemaError"]
    ELSE LET title_destinations == GroupSet(filtered_df, "show_title", "country_name")
             works == unique_works_df(filtered_df)
             df_dom == IsIn(works, "show_title", domestic_titles(title_destinations, T))
             df_int == IsIn(works, "show_title", international_titles(title_destinations, T))
         IN [kind |-> "split",
             domestic_titles |-> domestic_titles(title_destinations, T),
             international_titles |-> international_titles(title_destinations, T),
             dom |-> render_genre_section(df_dom),
             int |-> render_genre_section(df_int)]

\* the column check of line 318 made at the head of analyze_producer: with a
\* column missing nothing at all is computed
producer_tables_schema_first(df, cols, T) ==
    LET filtered_df == Where(df, "Country", T)
        raw_weeks == ValueCounts(filtered_df, "country_name")
    IN IF "Genre" \notin cols \/ "match" \notin cols
       THEN [kind |-> "producer", traveling |-> <<>>, coverage |-> <<>>,
             overseas |-> [kind |-> "skipped", export_stats |-> <<>>],
             raw_weeks_chart |-> <<>>, raw_weeks |-> <<>>, detail_list |-> <<>>,
             genre |-> [kind |-> "SchemaError"], raw |-> <<>>]
       ELSE [kind |-> "producer",
             traveling |-> HeadN(GroupNunique(filtered_df, "show_title", "country_name"), TopTitles),
             coverage |-> GroupNunique(filtered_df, "country_name", "show_title"),
             overseas |-> overseas_tab(filtered_df, T),
             raw_weeks_chart |-> HeadN(raw_weeks, TopMarkets),
             raw_weeks |-> raw_weeks,
             detail_list |-> GroupUniqueList(filtered_df, "country_name", "show_title"),
             genre |-> genre_tab(filtered_df, cols, T),
             raw |-> filtered_df]

producer_tables(df, cols, T) ==
    LET filtered_df == Where(df, "Country", T)
        raw_weeks == ValueCounts(filtered_df, "country_name")
    IN [kind |-> "producer",
        traveling |-> HeadN(GroupNunique(filtered_df, "show_title", "country_name"), TopTitles),
        coverage |-> GroupNunique(filtered_df, "country_name", "show_title"),
        overseas |-> overseas_tab(filtered_df, T),
        raw_weeks_chart |-> HeadN(raw_weeks, TopMarkets),
        raw_weeks |-> raw_weeks,
        detail_list |-> GroupUniqueList(filtered_df, "country_name", "show_title"),
        genre |-> genre_tab(filtered_df, cols, T),
        raw |-> filtered_df]

\* f"... {target_country} ({category_mode}) ...: {top_work} ..."
producer_prompt(T, cat, top_work) ==
    {<<"target_country", T>>, <<"category_mode", cat>>, <<"top_work", top_work>>}

producer_top_works(df, T) ==
    TopKeys(GroupNunique(Where(df, "Country", T), "show_title", "country_name"))

analyze_producer(df, cols, T, cat, key, clicked, outcome, top) ==
    IF T \notin Values(df, "Country")
    THEN [kind |-> "producer", target |-> T, status |-> "NotFound",
          tables |-> NoTables, digest |-> NoDigest]
    ELSE [kind |-> "producer", target |-> T, status |-> "ok",
          tables |-> producer_tables(df, cols, T),
          digest |-> Digest(key, clicked, producer_prompt(T, cat, top), outcome)]

\* self.df once analyze_producer has returned
producer_self_df(df, T) == df

\* ------------------------------------------------------ main script logic
\* sorted([c for c in available_countries if c in TARGET_COUNTRIES])
final_country_list(df) ==
    {c \in Values(df, "country_name") \cup Values(df, "Country") :
        c \in TARGET_COUNTRIES}

Files(R, CS) ==
    {[kind |-> "missing"], [kind |-> "unparsable"]}
    \cup {[kind |-> "csv", rows |-> t, columns |-> c] :
            t \in SeqsUpTo(R, MaxRows), c \in CS}

InitWith(F) ==
    /\ file \in F
    /\ pc = "boot"
    /\ load_status = "pending"
    /\ df_raw = <<>>
    /\ columns = {}
    /\ category_mode = "Films"
    /\ df_main = <<>>
    /\ self_df = <<>>
    /\ api_key = ""
    /\ report = [kind |-> "none"]

Init == InitWith(Files(ViewerRows, {AllColumns}))

InitGenre == InitWith(Files(GenreRows, ColumnSets))

\* lines 42-45: df_raw = load_data(...); if df_raw.empty: st.stop()
\* (st.cache_data hands back the same table on every later run)
ScriptTop ==
    LET r == load_data(file)
    IN /\ pc = "boot"
       /\ load_status' = r.status
       /\ df_raw' = r.rows
       /\ columns' = r.columns
       /\ pc' = IF r.status = "exception" THEN "crashed"
                ELSE IF r.rows = <<>> THEN "stopped" ELSE "ready"
       /\ UNCHANGED <<file, category_mode, df_main, self_df, api_key, report>>

LoadMissing == file.kind = "missing" /\ ScriptTop

LoadUnparsable == file.kind = "unparsable" /\ ScriptTop

LoadEmpty == file.kind = "csv" /\ file.rows = <<>> /\ ScriptTop

LoadTable == file.kind = "csv" /\ file.rows # <<>> /\ ScriptTop

\* what the run rendered, with the state of the digest button
Rendered(rep, clicked) ==
    [kind |-> rep.kind, target |-> rep.target, status |-> rep.status,
     tables |-> rep.tables, digest |-> rep.digest, clicked |-> clicked]

\* lines 53-416 of one script run, given what it rendered; an exception that
\* leaves ask_gemini would end the run
Run(clicked, rep, df_after) ==
    /\ pc = "ready"
    /\ df_main' = FilterCategory(df_raw, category_mode)
    /\ self_df' = df_after
    /\ report' = Rendered(rep, clicked)
    /\ pc' = IF rep.digest.kind = "requested" /\ rep.digest.raised
             THEN "crashed" ELSE "done"
    /\ UNCHANGED <<file, load_status, df_raw, columns, category_mode, api_key>>

NoReport(kind) ==
    [kind |-> kind, target |-> "none", status |-> "none", tables |-> NoTables,
     digest |-> NoDigest]

\* line 406-407: no target country in the filtered table
RunNoTarget ==
    LET df == FilterCategory(df_raw, category_mode)
    IN /\ final_country_list(df) = {}
       /\ Run(FALSE, NoReport("no_target"), df)

\* lines 409-416 with the start button not pressed in this run
RunIdle ==
    LET df == FilterCategory(df_raw, category_mode)
    IN /\ final_country_list(df) # {}
       /\ Run(FALSE, NoReport("idle"), df)

\* line 412: analyzer.analyze_viewer(selected_country); `clicked` is what
\* st.button returns when the digest expander renders it
ViewerRun(T, clicked, outcome) ==
    LET df == FilterCategory(df_raw, category_mode)
    IN /\ T \in final_country_list(df)
       /\ ~clicked => outcome = "ok"
       /\ \E top \in viewer_top_sources(df, T) :
            Run(clicked,
                analyze_viewer(df, T, category_mode, api_key, clicked, outcome, top),
                viewer_self_df(df, T))

AnalyzeViewer ==
    \E T \in Countries, clicked \in BOOLEAN, outcome \in Transport :
        /\ T \in Values(FilterCategory(df_raw, category_mode), "country_name")
        /\ clicked => api_key # ""
        /\ ViewerRun(T, clicked, outcome)

AnalyzeViewerNotFound ==
    \E T \in Countries :
        /\ T \notin Values(FilterCategory(df_raw, category_mode), "country_name")
        /\ ViewerRun(T, FALSE, "ok")

\* line 416: analyzer.analyze_producer(selected_country)
ProducerRun(T, clicked, outcome) ==
    LET df == FilterCategory(df_raw, category_mode)
    IN /\ T \in final_country_list(df)
       /\ ~clicked => outcome = "ok"
       /\ \E top \in producer_top_works(df, T) :
            Run(clicked,
                analyze_producer(df, columns, T, category_mode, api_key, clicked,
                                 outcome, top),
                producer_self_df(df, T))

AnalyzeProducer ==
    \E T \in Countries, clicked \in BOOLEAN, outcome \in Transport :
        /\ T \in Values(FilterCategory(df_raw, category_mode), "Country")
        /\ clicked => api_key # ""
        /\ ProducerRun(T, clicked, outcome)

AnalyzeProducerNotFound ==
    \E T \in Countries :
        /\ T \notin Values(FilterCategory(df_raw, category_mode), "Country")
        /\ ProducerRun(T, FALSE, "ok")

\* a widget interaction reruns the script from line 1: its globals (df_main,
\* analyzer, the page) are rebuilt, the sidebar widgets keep their new values
Rerun ==
    \E cat \in Categories, key \in ApiKeys :
        /\ pc \in {"done", "stopped", "crashed"}
        /\ pc' = "boot"
        /\ category_mode' = cat
        /\ api_key' = key
        /\ df_main' = <<>>
        /\ self_df' = <<>>
        /\ report' = [kind |-> "none"]
        /\ UNCHANGED <<file, load_status, df_raw, columns>>

Next ==
    \/ LoadMissing
    \/ LoadUnparsable
    \/ LoadEmpty
    \/ LoadTable
    \/ RunNoTarget
    \/ RunIdle
    \/ AnalyzeViewer
    \/ AnalyzeViewerNotFound
    \/ AnalyzeProducer
    \/ AnalyzeProducerNotFound
    \/ Rerun

Spec == Init /\ [][Next]_vars

SpecGenre == InitGenre /\ [][Next]_vars

\* ======================================================== checked claims
Analyzed(kind) == report.kind = kind /\ report.status = "ok"

\* marketRows / producedRows of the rendered report
MarketRows == Where(df_main, "country_name", report.target)

ProducedRows == Where(df_main, "Country", report.target)

DistinctTitles(rows) == Cardinality(Values(rows, "show_title"))

\* no title of the rows is recorded under more than one producing Country
SingleOrigin(rows) ==
    \A i, j \in DOMAIN rows :
        rows[i].show_title = rows[j].show_title => rows[i].Country = rows[j].Country

\* C1 as stated: the source ranking of market T sums to at most the number of
\* distinct titles in T's market, with equality exactly when no title has
\* several producing countries.
C1_SumAtMostDistinctTitles ==
    Analyzed("viewer") =>
        LET s == Total(report.tables.unique_counts)
            n == DistinctTitles(MarketRows)
        IN s <= n /\ ((s = n) <=> SingleOrigin(MarketRows))

\* C1 amended: the source ranking of market T sums to at least the number of
\* distinct titles in T's market (a title recorded under k producing countries
\* is counted k times), with equality exactly when no title has several
\* producing countries.
C1_SumAtLeastDistinctTitles ==
    Analyzed("viewer") =>
        LET s == Total(report.tables.unique_counts)
            n == DistinctTitles(MarketRows)
        IN s >= n /\ ((s = n) <=> SingleOrigin(MarketRows))

\* a market in which some title is recorded under two producing countries
C1_Witness ==
    /\ Analyzed("viewer")
    /\ ~SingleOrigin(MarketRows)
    /\ Total(report.tables.unique_counts) > DistinctTitles(MarketRows)

\* C3: the Weeks_at_No1 counts of market T sum to the number of rows of the
\* market with weekly_rank == 1; with no such row no table is produced, the
\* "no champion data" notice is shown and the run ends normally.
C3_Rank1CountsSumToRank1Rows ==
    Analyzed("viewer") =>
        LET n == Len(Where(MarketRows, "weekly_rank", 1))
            tab == report.tables.champion
        IN /\ pc = "done"
           /\ n = 0 => tab.kind = "info_no_champion" /\ tab.rank1_counts = <<>>
           /\ n > 0 => tab.kind = "table" /\ Total(tab.rank1_counts) = n

\* a market whose rank-1 rows come from two producing countries
C3_Witness ==
    /\ Analyzed("viewer")
    /\ report.tables.champion.kind = "table"
    /\ Cardinality(DOMAIN report.tables.champion.rank1_counts) = 2
    /\ Total(report.tables.champion.rank1_counts) = 3

\* C4: when the selected country never appears in the column of the chosen
\* perspective, the run reports NotFound, computes no derived table, does not
\* call the text-generation collaborator and ends normally, so that the next
\* widget interaction reruns the script.
C4_NotFoundIsReportedNotFatal ==
    LET absent ==
            \/ /\ report.kind = "viewer"
               /\ report.target \notin Values(df_main, "country_name")
            \/ /\ report.kind = "producer"
               /\ report.target \notin Values(df_main, "Country")
    IN absent =>
        /\ report.status = "NotFound"
        /\ report.tables = NoTables
        /\ report.digest = NoDigest
        /\ pc = "done"
        /\ ENABLED Rerun

\* a NotFound producer report for a country that is a market of the table
C4_Witness ==
    /\ report.kind = "producer"
    /\ report.status = "NotFound"
    /\ report.target \in Values(df_main, "country_name")

\* C5 as stated: load_data ends with the LoadError outcome both for a file
\* that cannot be located and for one that cannot be parsed, and after a
\* failed or empty load no filtering, analyzer or aggregation is reached.
C5_LoadFailureIsLoadError ==
    load_status # "pending" =>
        /\ file.kind \in {"missing", "unparsable"} => load_status = "LoadError"
        /\ (load_status # "table" \/ df_raw = <<>>) =>
              /\ pc \in {"boot", "stopped", "crashed"}
              /\ report.kind = "none"
              /\ df_main = <<>> /\ self_df = <<>>

\* C6: a requested digest always ends with a string shown to the user, an
\* error string when the transport fails; ask_gemini returns a string for
\* every credential and transport outcome, and no run ends in an exception
\* that came out of the analyze flow.
C6_CollaboratorFailureIsAString ==
    /\ \A k \in ApiKeys, o \in Transport :
          LET r == ask_gemini(k, {}, o)
          IN /\ ~r.raised
             /\ (k = "" \/ o = "error") => r.kind \in {"warning", "error"}
    /\ (report.kind \in {"viewer", "producer"} /\ report.digest.kind = "requested") =>
          /\ ~report.digest.raised
          /\ pc = "done"
          /\ report.digest.shown.kind \in {"generated", "error"}
          /\ report.digest.outcome = "error" => report.digest.shown.kind = "error"
    /\ pc = "crashed" => load_status = "exception"

\* a digest was requested and the transport failed
C6_Witness ==
    /\ report.kind \in {"viewer", "producer"}
    /\ report.digest.kind = "requested"
    /\ report.digest.outcome = "error"
    /\ report.digest.shown.kind = "error"

ChampionSources == TopKeys(report.tables.champion.rank1_counts)

\* the markets where the producer's titles are most numerous
TopMarketsOf == TopKeys(report.tables.coverage)

DigestRequested(kind) == Analyzed(kind) /\ report.digest.kind = "requested"

\* C9 as stated: the viewer prompt is built from the top source and the
\* champion source, the producer prompt from the top traveling title and the
\* top market.
C9_PromptHasBothFigures ==
    /\ DigestRequested("viewer") =>
          \E s \in TopKeys(report.tables.unique_counts), c \in ChampionSources :
              {<<"top_source", s>>, <<"champion_source", c>>} \subseteq report.digest.prompt
    /\ DigestRequested("producer") =>
          \E w \in TopKeys(report.tables.traveling), m \in TopMarketsOf :
              {<<"top_work", w>>, <<"top_market", m>>} \subseteq report.digest.prompt

\* C9 amended: the viewer prompt is built from the target country, the
\* category and the top source alone (a Country of highest distinct-title
\* count in T's market); the producer prompt from the target country, the
\* category and the top traveling title alone (a title of highest distinct
\* market count).  Neither the champion source nor the top market is in it.
C9_PromptHasTopFigureOnly ==
    /\ DigestRequested("viewer") =>
          \E s \in TopKeys(report.tables.unique_counts) :
              report.digest.prompt =
                  {<<"target_country", report.target>>,
                   <<"category_mode", category_mode>>, <<"top_source", s>>}
    /\ DigestRequested("producer") =>
          \E w \in TopKeys(report.tables.traveling) :
              report.digest.prompt =
                  {<<"target_country", report.target>>,
                   <<"category_mode", category_mode>>, <<"top_work", w>>}

\* a viewer digest of a market whose top source is not its champion source
C9_Witness ==
    /\ DigestRequested("viewer")
    /\ report.tables.champion.kind = "table"
    /\ Cardinality(DOMAIN report.tables.unique_counts) = 2
    /\ \A s \in TopKeys(report.tables.unique_counts) : s \notin ChampionSources

\* --------------------------------------------------- genre split (tab6)
GenreSplit == Analyzed("producer") /\ report.tables.genre.kind = "split"

\* the markets a title of producedRows charted in
MarketsOf(t) == Values(Where(ProducedRows, "show_title", t), "country_name")

\* the first row of producedRows that carries title t
FirstRowOf(t) ==
    ProducedRows[CHOOSE i \in DOMAIN ProducedRows :
                    /\ ProducedRows[i].show_title = t
                    /\ \A j \in 1..(i - 1) : ProducedRows[j].show_title # t]

\* C2: the domestic-only and international title lists partition the distinct
\* titles of producedRows (domestic-only iff the title's markets are exactly
\* {T}), and the row counts of df_dom and df_int sum to the number of
\* distinct titles.
C2_GenreBucketsPartitionTitles ==
    GenreSplit =>
        LET g == report.tables.genre
            titles == Values(ProducedRows, "show_title")
        IN /\ g.domestic_titles \cap g.international_titles = {}
           /\ g.domestic_titles \cup g.international_titles = titles
           /\ \A t \in titles : (t \in g.domestic_titles) <=> (MarketsOf(t) = {report.target})
           /\ Values(g.dom.rows, "show_title") = g.domestic_titles
           /\ Values(g.int.rows, "show_title") = g.international_titles
           /\ Len(g.dom.rows) + Len(g.int.rows) = Cardinality(titles)
           /\ g.dom.count + g.int.count = Cardinality(titles)

\* both buckets are inhabited, one title charting at home and abroad
C2_Witness ==
    /\ GenreSplit
    /\ report.tables.genre.domestic_titles # {}
    /\ \E t \in report.tables.genre.international_titles :
          report.target \in MarketsOf(t) /\ MarketsOf(t) # {report.target}

\* the rows of a bucket section are one row per title of the bucket, each the
\* first row of producedRows with that title, and the match == 'OK' rows and
\* the match != 'OK' rows split them
SectionIsDeduplicated(sec, bucket) ==
    /\ Len(sec.rows) = Cardinality(bucket)
    /\ \A t \in bucket :
          \E i \in DOMAIN sec.rows :
              /\ sec.rows[i] = FirstRowOf(t)
              /\ \A j \in DOMAIN sec.rows : sec.rows[j].show_title = t => j = i
    /\ \A i \in DOMAIN sec.df_ok : sec.df_ok[i].match = "OK"
    /\ \A i \in DOMAIN sec.df_not_ok : sec.df_not_ok[i].match # "OK"
    /\ Len(sec.df_ok) + Len(sec.df_not_ok) = Len(sec.rows)
    /\ \A i \in DOMAIN sec.rows :
          IF sec.rows[i].match = "OK"
          THEN /\ \E j \in DOMAIN sec.df_ok : sec.df_ok[j] = sec.rows[i]
               /\ \A j \in DOMAIN sec.df_not_ok : sec.df_not_ok[j] # sec.rows[i]
          ELSE /\ \E j \in DOMAIN sec.df_not_ok : sec.df_not_ok[j] = sec.rows[i]
               /\ \A j \in DOMAIN sec.df_ok : sec.df_ok[j] # sec.rows[i]

\* C10: in the genre split every distinct title of producedRows contributes
\* exactly one row to its bucket, its first row in table order, however many
\* markets or weeks it appears in; within each bucket the match == 'OK' rows
\* and the match != 'OK' rows are disjoint and cover the bucket.
C10_OneFirstRowPerTitle ==
    GenreSplit =>
        /\ SectionIsDeduplicated(report.tables.genre.dom,
                                 report.tables.genre.domestic_titles)
        /\ SectionIsDeduplicated(report.tables.genre.int,
                                 report.tables.genre.international_titles)

\* a title with three rows whose first and last rows differ in match
C10_Witness ==
    /\ GenreSplit
    /\ \E t \in Values(ProducedRows, "show_title") :
          LET rows == Where(ProducedRows, "show_title", t)
          IN /\ Len(rows) = 3
             /\ rows[1].match = "OK"
             /\ rows[3].match # "OK"
             /\ Cardinality(MarketsOf(t)) = 2

\* the table the same file would give with every column present
FullMain == FilterCategory(file.rows, category_mode)

WithoutGenre(tables) == [f \in (DOMAIN tables) \ {"genre", "raw"} |-> tables[f]]

\* C7: with the Genre or the match column missing, analyze_producer reports
\* the schema error for the genre split alone; the reach ranking, coverage
\* map, overseas performance, total-weeks ranking and detail listing are those
\* of the same table with the columns present, the raw data are its rows
\* without the missing column, and the digest is still produced on request.
C7_OnlyGenreSplitIsSkipped ==
    (Analyzed("producer") /\ ~({"Genre", "match"} \subseteq columns)) =>
        LET full == producer_tables(FullMain, AllColumns, report.target)
        IN /\ report.tables.genre.kind = "SchemaError"
           /\ full.genre.kind = "split"
           /\ WithoutGenre(report.tables) = WithoutGenre(full)
           /\ report.tables.raw = Project(full.raw, columns)
           /\ report.tables.raw # <<>>
           /\ report.clicked => report.digest.kind = "requested"
           /\ pc = "done"

\* a producer analysis of a table without the Genre column, digest requested
C7_Witness ==
    /\ Analyzed("producer")
    /\ "Genre" \notin columns
    /\ report.digest.kind = "requested"
    /\ report.tables.overseas.kind = "table"

====
